---------------------------- MODULE Spec2Model ----------------------------
(***************************************************************************)
(* State-machine model of the BackDash backtest engine                     *)
(* (src/src/utils/backtestEngine.ts) and of its memoised indicator engine  *)
(* (src/unnamed/part_014, imported as ./technicalIndicators).              *)
(*                                                                         *)
(* Numbers.  A JavaScript number is modelled as an exact rational <<n, d>> *)
(* with d > 0 in lowest terms; <<0, 0>> is `undefined` (an array hole) and *)
(* <<1, 0>> is NaN.  Bar closes, quantities, P&L and the portfolio value   *)
(* are integers in every run the model draws, and are kept as integers.    *)
(* Arrays are 0-based in the source and 1-based sequences here: source     *)
(* index i is sequence index i + 1.                                        *)
(***************************************************************************)
EXTENDS Integers, Sequences, FiniteSets, TLC

(***************************************************************************)
(* Exact arithmetic on JavaScript numbers                                  *)
(***************************************************************************)
Undef == <<0, 0>>
NaN == <<1, 0>>

IsNum(x) == x[2] # 0

Abs(n) == IF n < 0 THEN -n ELSE n

RECURSIVE GCD(_, _)
GCD(a, b) == IF b = 0 THEN a ELSE GCD(b, a % b)

Norm(n, d) ==
    LET g == GCD(Abs(n), Abs(d))
        s == IF d < 0 THEN -1 ELSE 1
    IN  IF d = 0 THEN NaN ELSE <<(s * n) \div g, (s * d) \div g>>

R(n) == <<n, 1>>

\* The operands are in lowest terms; common factors are divided out before
\* the products are formed.
RAdd(a, b) ==
    IF IsNum(a) /\ IsNum(b)
    THEN Norm(a[1] * (b[2] \div GCD(a[2], b[2])) + b[1] * (a[2] \div GCD(a[2], b[2])),
              (a[2] \div GCD(a[2], b[2])) * b[2])
    ELSE NaN
RSub(a, b) == RAdd(a, <<-b[1], b[2]>>)
RMul(a, b) ==
    IF IsNum(a) /\ IsNum(b)
    THEN Norm((a[1] \div GCD(Abs(a[1]), b[2])) * (b[1] \div GCD(Abs(b[1]), a[2])),
              (a[2] \div GCD(Abs(b[1]), a[2])) * (b[2] \div GCD(Abs(a[1]), b[2])))
    ELSE NaN
RDiv(a, b) == IF IsNum(a) /\ IsNum(b) THEN RMul(a, Norm(b[2], b[1])) ELSE NaN
RAbs(a) == IF IsNum(a) THEN <<Abs(a[1]), a[2]>> ELSE NaN

\* Comparisons are false as soon as one side is NaN or undefined.
RLt(a, b) ==
    IsNum(a) /\ IsNum(b)
        /\ a[1] * (b[2] \div GCD(a[2], b[2])) < b[1] * (a[2] \div GCD(a[2], b[2]))
RLe(a, b) ==
    IsNum(a) /\ IsNum(b)
        /\ a[1] * (b[2] \div GCD(a[2], b[2])) <= b[1] * (a[2] \div GCD(a[2], b[2]))
RGt(a, b) == RLt(b, a)
RGe(a, b) == RLe(b, a)

\* `x || 0`: undefined, NaN and 0 all become 0.
OrZero(x) == IF IsNum(x) /\ x[1] # 0 THEN x ELSE R(0)

\* `x || 1`
OrOne(x) == IF IsNum(x) /\ x[1] # 0 THEN x ELSE R(1)

(***************************************************************************)
(* for (k = lo; k < hi; k++) s = Step(s, k)                                *)
(*                                                                         *)
(* The range is split in halves and the state after the first half is      *)
(* bound before the second half runs, which keeps the evaluation depth     *)
(* logarithmic in the number of iterations.                                *)
(***************************************************************************)
RECURSIVE Iterate(_, _, _, _)
Iterate(Step(_, _), s, lo, hi) ==
    IF lo >= hi THEN s
    ELSE IF hi = lo + 1 THEN Step(s, lo)
    ELSE LET mid == (lo + hi) \div 2
         IN  CHOOSE r \in {Iterate(Step, x, mid, hi) : x \in {Iterate(Step, s, lo, mid)}} : TRUE

(***************************************************************************)
(* JavaScript arrays with holes                                            *)
(***************************************************************************)
Holes(n) == LET Step(arr, k) == Append(arr, Undef) IN Iterate(Step, <<>>, 0, n)

\* new Array(n)
NewArray(n) == Holes(n)

\* arr[i], undefined outside the array.
At(arr, i) == IF i >= 0 /\ i < Len(arr) THEN arr[i + 1] ELSE Undef

\* arr[i] = v; an index at or beyond the length grows the array with holes.
\* A negative index sets a property and leaves the elements alone.
ArraySet(arr, i, v) ==
    IF i < 0 THEN arr
    ELSE IF i < Len(arr) THEN [arr EXCEPT ![i + 1] = v]
    ELSE Append(arr \o Holes(i - Len(arr)), v)

\* arr.slice(from, to)
Slice(arr, from, to) ==
    LET hi == IF to > Len(arr) THEN Len(arr) ELSE to
    IN  IF from >= hi THEN <<>> ELSE SubSeq(arr, from + 1, hi)

\* arr.slice(-n)
SliceLast(arr, n) == IF Len(arr) <= n THEN arr ELSE Slice(arr, Len(arr) - n, Len(arr))

\* arr.filter(v => v !== undefined): holes are skipped.
FilterDefined(arr) ==
    LET Step(kept, k) == IF At(arr, k) = Undef THEN kept ELSE Append(kept, At(arr, k))
    IN  Iterate(Step, <<>>, 0, Len(arr))

(***************************************************************************)
(* Map<K, V> in insertion order, as a sequence of <<key, value>>           *)
(***************************************************************************)
MapHas(m, k) == \E j \in 1..Len(m) : m[j][1] = k
MapGet(m, k) == m[CHOOSE j \in 1..Len(m) : m[j][1] = k][2]
MapSet(m, k, v) ==
    IF MapHas(m, k)
    THEN [j \in 1..Len(m) |-> IF m[j][1] = k THEN <<k, v>> ELSE m[j]]
    ELSE Append(m, <<k, v>>)


(***************************************************************************)
(* Indicator engine: the memo cache indicatorCache and its eviction        *)
(***************************************************************************)
CACHE_SIZE_LIMIT == 200

\* Math.floor(limit * 0.7)
ToKeep(limit) == (limit * 7) \div 10

\* Once the map holds more than the limit, only its last toKeep entries stay.
clearCacheIfNeeded(ic) ==
    IF Len(ic) > CACHE_SIZE_LIMIT THEN SliceLast(ic, ToKeep(CACHE_SIZE_LIMIT)) ELSE ic

\* The body of calculateEMA on a cache miss: the seed is written at index
\* period - 1 whatever the input length, the recurrence runs from `period`.
ComputeEMA(data, period) ==
    LET multiplier == RDiv(R(2), R(period + 1))
        Add(sum, i) == RAdd(sum, At(data, i))
        sum == Iterate(Add, R(0), 0, IF period < Len(data) THEN period ELSE Len(data))
        seeded == ArraySet(NewArray(Len(data)), period - 1, RDiv(sum, R(period)))
        Step(ema, i) ==
            ArraySet(ema, i, RAdd(RMul(RSub(At(data, i), At(ema, i - 1)), multiplier),
                                  At(ema, i - 1)))
    IN  Iterate(Step, seeded, period, Len(data))

EMAKey(data, period) == <<"EMA", period, Len(data)>>

\* indicatorCache.set(cacheKey, series); clearCacheIfNeeded(); return series
StoreSeries(ic, cacheKey, series) ==
    [result |-> series, ic |-> clearCacheIfNeeded(MapSet(ic, cacheKey, series))]

\* calculateEMA(data, period) run against the cache ic: the returned series
\* and the cache afterwards.  The key holds the period and the input length.
calculateEMA(data, period, ic) ==
    IF MapHas(ic, EMAKey(data, period))
    THEN [result |-> MapGet(ic, EMAKey(data, period)), ic |-> ic]
    ELSE StoreSeries(ic, EMAKey(data, period), ComputeEMA(data, period))

\* gains[k] and losses[k]: the change from data[k] to data[k + 1].
Gain(data, k) ==
    LET change == RSub(At(data, k + 1), At(data, k))
    IN  IF RGt(change, R(0)) THEN change ELSE R(0)
Loss(data, k) ==
    LET change == RSub(At(data, k + 1), At(data, k))
    IN  IF RLt(change, R(0)) THEN RAbs(change) ELSE R(0)

\* The body of calculateRSI past its short-input return.  The state of its
\* last loop is <<rsi, avgGain, avgLoss>>.
ComputeRSI(data, period) ==
    LET AddGain(sum, k) == RAdd(sum, Gain(data, k))
        AddLoss(sum, k) == RAdd(sum, Loss(data, k))
        seedGain == RDiv(Iterate(AddGain, R(0), 0, period), R(period))
        seedLoss == RDiv(Iterate(AddLoss, R(0), 0, period), R(period))
        Step(st, i) ==
            LET avgGain == IF i > period
                           THEN RDiv(RAdd(RMul(st[2], R(period - 1)), Gain(data, i - 1)),
                                     R(period))
                           ELSE st[2]
                avgLoss == IF i > period
                           THEN RDiv(RAdd(RMul(st[3], R(period - 1)), Loss(data, i - 1)),
                                     R(period))
                           ELSE st[3]
                rs == RDiv(avgGain, OrOne(avgLoss))
            IN  <<ArraySet(st[1], i, RSub(R(100), RDiv(R(100), RAdd(R(1), rs)))),
                  avgGain, avgLoss>>
    IN  Iterate(Step, <<NewArray(Len(data)), seedGain, seedLoss>>, period, Len(data))[1]

RSIKey(data, period) == <<"RSI", period, Len(data)>>

\* calculateRSI(data, period): an input shorter than period + 1 is cached
\* and returned as all holes without the eviction call.
calculateRSI(data, period, ic) ==
    IF MapHas(ic, RSIKey(data, period))
    THEN [result |-> MapGet(ic, RSIKey(data, period)), ic |-> ic]
    ELSE IF Len(data) < period + 1
    THEN [result |-> NewArray(Len(data)),
          ic |-> MapSet(ic, RSIKey(data, period), NewArray(Len(data)))]
    ELSE StoreSeries(ic, RSIKey(data, period), ComputeRSI(data, period))

\* The first loop of calculateMACD: a slot of macdLine is written where both
\* EMAs are defined.
MACDLineLoop(fastEMA, slowEMA, n) ==
    LET Step(macdLine, i) ==
            IF At(fastEMA, i) # Undef /\ At(slowEMA, i) # Undef
            THEN ArraySet(macdLine, i, RSub(At(fastEMA, i), At(slowEMA, i)))
            ELSE macdLine
    IN  Iterate(Step, NewArray(n), 0, n)

\* MACDSignalLoop reading the signal series at i, not at signalIndex.
MACDSignalLoopUnaligned(macdLine, signal, n) ==
    LET Step(st, k) ==
            IF At(macdLine, k) # Undef
            THEN IF At(signal, k) # Undef
                 THEN <<ArraySet(st[1], k, At(signal, k)),
                        ArraySet(st[2], k, RSub(At(macdLine, k), At(signal, k))),
                        st[3] + 1>>
                 ELSE <<st[1], st[2], st[3] + 1>>
            ELSE st
    IN  Iterate(Step, <<NewArray(n), NewArray(n), 0>>, 0, Len(macdLine))

\* The last loop of calculateMACD, on the state
\* <<signalLine, histogram, signalIndex>>.
MACDSignalLoop(macdLine, signal, n) ==
    LET Step(st, i) ==
            IF At(macdLine, i) # Undef
            THEN IF At(signal, st[3]) # Undef
                 THEN <<ArraySet(st[1], i, At(signal, st[3])),
                        ArraySet(st[2], i, RSub(At(macdLine, i), At(signal, st[3]))),
                        st[3] + 1>>
                 ELSE <<st[1], st[2], st[3] + 1>>
            ELSE st
    IN  Iterate(Step, <<NewArray(n), NewArray(n), 0>>, 0, Len(macdLine))

MACDKey(data, fastPeriod, slowPeriod, signalPeriod) ==
    <<"MACD", fastPeriod, slowPeriod, signalPeriod, Len(data)>>

\* Lines 130-134: the three series are cached as one array and returned.
MACDStore(cacheKey, macdLine, rest, ic) ==
    [macdLine |-> macdLine, signalLine |-> rest[1], histogram |-> rest[2],
     ic |-> clearCacheIfNeeded(MapSet(ic, cacheKey, macdLine \o rest[1] \o rest[2]))]

\* Lines 118-128, given the signal EMA call's outcome.
MACDAlign(cacheKey, macdLine, signal) ==
    MACDStore(cacheKey, macdLine, MACDSignalLoop(macdLine, signal.result, Len(macdLine)),
              signal.ic)

\* Lines 116-117: the EMA of the compacted macdLine.
MACDSignal(cacheKey, signalPeriod, macdLine, ic) ==
    MACDAlign(cacheKey, macdLine, calculateEMA(FilterDefined(macdLine), signalPeriod, ic))

\* Lines 106-114, given the two EMA calls' outcomes.
MACDLine(cacheKey, n, signalPeriod, fastEMA, slow) ==
    MACDSignal(cacheKey, signalPeriod, MACDLineLoop(fastEMA, slow.result, n), slow.ic)

\* Line 104, given the fast EMA call's outcome.
MACDSlow(cacheKey, data, slowPeriod, signalPeriod, fast) ==
    MACDLine(cacheKey, Len(data), signalPeriod, fast.result,
             calculateEMA(data, slowPeriod, fast.ic))

\* A hit cuts the cached array in three at Math.floor(length / 3).
MACDCut(cached, ic) ==
    [macdLine |-> Slice(cached, 0, Len(cached) \div 3),
     signalLine |-> Slice(cached, Len(cached) \div 3, (Len(cached) \div 3) * 2),
     histogram |-> Slice(cached, (Len(cached) \div 3) * 2, Len(cached)),
     ic |-> ic]

\* calculateMACD run against the cache ic.  A miss makes three calculateEMA
\* calls, each against the cache the one before left.
calculateMACD(data, fastPeriod, slowPeriod, signalPeriod, ic) ==
    IF MapHas(ic, MACDKey(data, fastPeriod, slowPeriod, signalPeriod))
    THEN MACDCut(MapGet(ic, MACDKey(data, fastPeriod, slowPeriod, signalPeriod)), ic)
    ELSE MACDSlow(MACDKey(data, fastPeriod, slowPeriod, signalPeriod), data, slowPeriod,
                  signalPeriod, calculateEMA(data, fastPeriod, ic))

(***************************************************************************)
(* getIndicatorValue and its memo cache valueCache                         *)
(***************************************************************************)
VALUE_CACHE_SIZE_LIMIT == 500

clearValueCacheIfNeeded(vc) ==
    IF Len(vc) > VALUE_CACHE_SIZE_LIMIT THEN SliceLast(vc, ToKeep(VALUE_CACHE_SIZE_LIMIT)) ELSE vc

\* An indicator name.  `arg` is what parseInt reads after "EMA_" in a name
\* that starts with "EMA_", and 0 for every other name.
Indicator(name, arg) == [name |-> name, arg |-> arg]
Price == Indicator("Price", 0)
EMA20 == Indicator("EMA (20)", 0)
RSI14 == Indicator("RSI (14)", 0)
MACD12269 == Indicator("MACD (12, 26, 9)", 0)
Bollinger == Indicator("Bollinger Bands (20, 2)", 0)
EMAp(p) == Indicator("EMA_", p)
UnknownIndicator == Indicator("SMA (10)", 0)

\* data.slice(0, index + 1).map(d => d.close); a bar series is the sequence
\* of its closes.
Prices(data, index) ==
    LET Step(prices, k) == Append(prices, R(data[k + 1]))
    IN  Iterate(Step, <<>>, 0, Len(Slice(data, 0, index + 1)))

ValueKey(data, indicator, index) == <<indicator, index, Len(data)>>

\* series[currentIndex] || 0, with the cache the call left.
ValueAt(series, currentIndex, ic) == [value |-> OrZero(At(series, currentIndex)), ic |-> ic]
EMAValue(r, currentIndex) == ValueAt(r.result, currentIndex, r.ic)
MACDValue(r, currentIndex) == ValueAt(r.macdLine, currentIndex, r.ic)

\* The switch of getIndicatorValue; currentIndex is prices.length - 1.
IndicatorSwitch(data, indicator, index, prices, ic) ==
    CASE indicator.name = "EMA (20)" -> EMAValue(calculateEMA(prices, 20, ic), Len(prices) - 1)
      [] indicator.name = "RSI (14)" -> EMAValue(calculateRSI(prices, 14, ic), Len(prices) - 1)
      [] indicator.name = "MACD (12, 26, 9)" ->
            MACDValue(calculateMACD(prices, 12, 26, 9, ic), Len(prices) - 1)
      [] indicator.name = "Bollinger Bands (20, 2)" -> [value |-> R(0), ic |-> ic]
      [] indicator.name = "Price" ->
            [value |-> OrZero(IF index >= 0 /\ index < Len(data)
                              THEN R(data[index + 1]) ELSE Undef),
             ic |-> ic]
      [] indicator.name = "EMA_" ->
            EMAValue(calculateEMA(prices, indicator.arg, ic), Len(prices) - 1)
      [] OTHER -> [value |-> R(0), ic |-> ic]

\* valueCache.set(cacheKey, value); clearValueCacheIfNeeded(); return value
StoreValue(vc, cacheKey, computed) ==
    [value |-> computed.value,
     vc |-> clearValueCacheIfNeeded(MapSet(vc, cacheKey, computed.value)),
     ic |-> computed.ic]

\* getIndicatorValue(data, indicator, index) run against both caches: the
\* value returned and the caches afterwards.  The key holds the indicator
\* name, the index and the number of bars.
getIndicatorValue(data, indicator, index, vc, ic) ==
    IF MapHas(vc, ValueKey(data, indicator, index))
    THEN [value |-> MapGet(vc, ValueKey(data, indicator, index)), vc |-> vc, ic |-> ic]
    ELSE StoreValue(vc, ValueKey(data, indicator, index),
                    IndicatorSwitch(data, indicator, index, Prices(data, index), ic))

(***************************************************************************)
(* Condition evaluator                                                     *)
(***************************************************************************)
Condition(indicator, operator, value) ==
    [indicator |-> indicator, operator |-> operator, value |-> value]

\* Compare with `=` and `!=` as exact equality and inequality.
CompareExact(indicatorValue, operator, value) ==
    CASE operator = ">" -> RGt(indicatorValue, R(value))
      [] operator = "<" -> RLt(indicatorValue, R(value))
      [] operator = ">=" -> RGe(indicatorValue, R(value))
      [] operator = "<=" -> RLe(indicatorValue, R(value))
      [] operator = "=" -> indicatorValue = R(value)
      [] operator = "!=" -> indicatorValue # R(value)
      [] OTHER -> FALSE

\* The switch of checkConditions on one condition.
Compare(indicatorValue, operator, value) ==
    CASE operator = ">" -> RGt(indicatorValue, R(value))
      [] operator = "<" -> RLt(indicatorValue, R(value))
      [] operator = ">=" -> RGe(indicatorValue, R(value))
      [] operator = "<=" -> RLe(indicatorValue, R(value))
      [] operator = "=" -> RLt(RAbs(RSub(indicatorValue, R(value))), <<1, 100>>)
      [] operator = "!=" -> RGe(RAbs(RSub(indicatorValue, R(value))), <<1, 100>>)
      [] OTHER -> FALSE

\* conditions.every(...): conditions are evaluated in order and evaluation
\* stops at the first one that fails.  Returns the verdict and both caches.
RECURSIVE checkConditions(_, _, _, _, _)
\* EveryFrom as `some` would do it: the first comparison that holds decides.
EveryFromSome(data, conditions, index, r) ==
    IF Compare(r.value, Head(conditions).operator, Head(conditions).value)
    THEN [ok |-> TRUE, vc |-> r.vc, ic |-> r.ic]
    ELSE checkConditions(data, Tail(conditions), index, r.vc, r.ic)

EveryFrom(data, conditions, index, r) ==
    IF Compare(r.value, Head(conditions).operator, Head(conditions).value)
    THEN checkConditions(data, Tail(conditions), index, r.vc, r.ic)
    ELSE [ok |-> FALSE, vc |-> r.vc, ic |-> r.ic]

checkConditions(data, conditions, index, vc, ic) ==
    IF conditions = <<>> THEN [ok |-> TRUE, vc |-> vc, ic |-> ic]
    ELSE EveryFrom(data, conditions, index,
                   getIndicatorValue(data, Head(conditions).indicator, index, vc, ic))

(***************************************************************************)
(* runBacktest: the values it computes                                     *)
(***************************************************************************)
InitialCapital == 10000
WarmUpBars == 50

Max(a, b) == IF a > b THEN a ELSE b

\* Math.max(50, Math.floor(data.length * 0.1))
StartIndex(data) == Max(WarmUpBars, Len(data) \div 10)

\* The timestamp of bar j: bars are one day apart, counted in days.
Timestamp(j) == j + 1

\* arr.length = n
SetLength(arr, n) == IF n <= Len(arr) THEN SubSeq(arr, 1, n) ELSE arr \o Holes(n - Len(arr))

stopLossMultiplier(strategy) == RSub(R(1), RDiv(R(strategy.riskManagement.stopLoss), R(100)))
takeProfitMultiplier(strategy) == RAdd(R(1), RDiv(R(strategy.riskManagement.takeProfit), R(100)))

\* RiskExit with strict comparisons: a close exactly on a level is missed.
RiskExitStrict(strategy, entry, currentPrice) ==
    \/ RLt(R(currentPrice), RMul(R(entry), stopLossMultiplier(strategy)))
    \/ RGt(R(currentPrice), RMul(R(entry), takeProfitMultiplier(strategy)))

\* The stop-loss / take-profit test of an open long position.
RiskExit(strategy, entry, currentPrice) ==
    \/ RLe(R(currentPrice), RMul(R(entry), stopLossMultiplier(strategy)))
    \/ RGe(R(currentPrice), RMul(R(entry), takeProfitMultiplier(strategy)))

\* Pnl with the two branches swapped.
PnlSwapped(position, entry, currentPrice, size) ==
    IF position = "long" THEN (entry - currentPrice) * size ELSE (currentPrice - entry) * size

\* The realised P&L of closing at currentPrice.
Pnl(position, entry, currentPrice, size) ==
    IF position = "long" THEN (currentPrice - entry) * size ELSE (entry - currentPrice) * size

PnlPercent(pnl, entry, size) == RMul(RDiv(R(pnl), R(entry * size)), R(100))

\* EntrySize putting twice the portfolio value into the position.
EntrySizeLeveraged(strategy, value, currentPrice) == (value * 200) \div (100 * currentPrice)

\* Math.floor(portfolioValue * 0.95 / currentPrice)
EntrySize(strategy, value, currentPrice) == (value * 95) \div (100 * currentPrice)

\* EquityValue with the open position marked to market.
EquityValueMarked(value, position, entry, size, currentPrice) ==
    IF position = "none" THEN value ELSE value + (currentPrice - entry) * size

\* The value written into the equity array for a bar.
EquityValue(value, position, entry, size, currentPrice) == value

(***************************************************************************)
(* runBacktest: one run as a record s of its locals and the two caches     *)
(***************************************************************************)
\* Where the loop goes after bar i: the next bar, or past the loop.
LoopHead(data, i) == IF i < Len(data) THEN "exit" ELSE "finish"

\* Lines 5-21: the locals before the loop.  `equity.length = maxEquitySize`
\* throws a RangeError when maxEquitySize is negative.
BeginRun(data, strategy, vc, ic) ==
    LET startIndex == StartIndex(data)
        maxEquitySize == Len(data) - startIndex + 1
    IN  [pc |-> IF maxEquitySize < 0 THEN "threw" ELSE LoopHead(data, startIndex),
         i |-> startIndex,
         currentPosition |-> "none",
         entryPrice |-> 0,
         entryTime |-> 0,
         positionSize |-> strategy.riskManagement.positionSize,
         portfolioValue |-> InitialCapital,
         equity |-> IF maxEquitySize < 0 THEN <<R(InitialCapital)>>
                    ELSE SetLength(<<R(InitialCapital)>>, maxEquitySize),
         equityIndex |-> 1,
         returns |-> <<>>,
         trades |-> <<>>,
         vc |-> vc,
         ic |-> ic]

\* ClosePosition crediting the proceeds of the sale in place of the pnl.
ClosePositionProceeds(s, currentPrice, pnl, pnlPercent) ==
    [s EXCEPT !.trades = Append(s.trades,
                                [id |-> Len(s.trades) + 1,
                                 entryPrice |-> s.entryPrice,
                                 exitPrice |-> currentPrice,
                                 entryTime |-> s.entryTime,
                                 exitTime |-> Timestamp(s.i),
                                 quantity |-> s.positionSize,
                                 pnl |-> pnl,
                                 pnlPercent |-> pnlPercent,
                                 type |-> s.currentPosition]),
              !.portfolioValue = s.portfolioValue + currentPrice * s.positionSize,
              !.returns = Append(s.returns, pnlPercent),
              !.currentPosition = "none"]

\* Lines 41-63: the trade is appended and the position closed.
ClosePosition(s, currentPrice, pnl, pnlPercent) ==
    [s EXCEPT !.trades = Append(s.trades,
                                [id |-> Len(s.trades) + 1,
                                 entryPrice |-> s.entryPrice,
                                 exitPrice |-> currentPrice,
                                 entryTime |-> s.entryTime,
                                 exitTime |-> Timestamp(s.i),
                                 quantity |-> s.positionSize,
                                 pnl |-> pnl,
                                 pnlPercent |-> pnlPercent,
                                 type |-> s.currentPosition]),
              !.portfolioValue = s.portfolioValue + pnl,
              !.returns = Append(s.returns, pnlPercent),
              !.currentPosition = "none"]

\* Lines 32-40: exit conditions, or a stop-loss / take-profit breach.
ExitTriggered(strategy, s, currentPrice, shouldExit) ==
    \/ shouldExit
    \/ s.currentPosition = "long" /\ RiskExit(strategy, s.entryPrice, currentPrice)

\* Lines 30-63 with the outcome chk of the exit conditions' evaluation.
ExitDecide(strategy, s, currentPrice, chk) ==
    IF ExitTriggered(strategy, s, currentPrice, chk.ok)
    THEN ClosePosition([s EXCEPT !.vc = chk.vc, !.ic = chk.ic], currentPrice,
                       Pnl(s.currentPosition, s.entryPrice, currentPrice, s.positionSize),
                       PnlPercent(Pnl(s.currentPosition, s.entryPrice, currentPrice,
                                      s.positionSize),
                                  s.entryPrice, s.positionSize))
    ELSE [s EXCEPT !.vc = chk.vc, !.ic = chk.ic]

\* Lines 24-64 for bar s.i: the zero-close skip and the exit logic.
ExitStep(data, strategy, s) ==
    IF data[s.i + 1] = 0
    THEN [s EXCEPT !.i = s.i + 1, !.pc = LoopHead(data, s.i + 1)]
    ELSE IF s.currentPosition = "none"
    THEN [s EXCEPT !.pc = "entry"]
    ELSE [ExitDecide(strategy, s, data[s.i + 1],
                     checkConditions(data, strategy.exitConditions, s.i, s.vc, s.ic))
            EXCEPT !.pc = "entry"]

\* Lines 69-74 with the outcome chk of the entry conditions' evaluation.
EnterDecide(strategy, s, currentPrice, chk) ==
    IF chk.ok
    THEN [s EXCEPT !.currentPosition = "long",
                   !.entryPrice = currentPrice,
                   !.entryTime = Timestamp(s.i),
                   !.positionSize = EntrySize(strategy, s.portfolioValue, currentPrice),
                   !.vc = chk.vc, !.ic = chk.ic]
    ELSE [s EXCEPT !.vc = chk.vc, !.ic = chk.ic]

\* Line 77 and the loop increment.
RecordEquity(data, s, currentPrice) ==
    [s EXCEPT !.equity = ArraySet(s.equity, s.equityIndex,
                                  R(EquityValue(s.portfolioValue, s.currentPosition,
                                                s.entryPrice, s.positionSize, currentPrice))),
              !.equityIndex = s.equityIndex + 1,
              !.i = s.i + 1,
              !.pc = LoopHead(data, s.i + 1)]

\* EntryStep without the `currentPosition === 'none'` test.
EntryStepUnguarded(data, strategy, s) ==
    RecordEquity(data,
                 EnterDecide(strategy, s, data[s.i + 1],
                             checkConditions(data, strategy.entryConditions, s.i, s.vc, s.ic)),
                 data[s.i + 1])

\* EntryStep with the exit rules run once more on the bar, after the entry.
EntryStepThenExit(data, strategy, s) ==
    LET entered == IF s.currentPosition # "none" THEN s
                   ELSE EnterDecide(strategy, s, data[s.i + 1],
                                    checkConditions(data, strategy.entryConditions, s.i,
                                                    s.vc, s.ic))
    IN  RecordEquity(data,
                     IF entered.currentPosition = "none" THEN entered
                     ELSE ExitDecide(strategy, entered, data[s.i + 1],
                                     checkConditions(data, strategy.exitConditions, s.i,
                                                     entered.vc, entered.ic)),
                     data[s.i + 1])

\* Lines 66-77 for bar s.i: the entry logic and the bar's equity point.
EntryStep(data, strategy, s) ==
    RecordEquity(data,
                 IF s.currentPosition # "none" THEN s
                 ELSE EnterDecide(strategy, s, data[s.i + 1],
                                  checkConditions(data, strategy.entryConditions, s.i,
                                                  s.vc, s.ic)),
                 data[s.i + 1])

(***************************************************************************)
(* calculateMetrics and calculateDrawdown                                  *)
(***************************************************************************)
RECURSIVE SumPnl(_)
SumPnl(ts) == IF ts = <<>> THEN 0 ELSE Head(ts).pnl + SumPnl(Tail(ts))

RMaxOf(S) == CHOOSE x \in S : \A y \in S : RGe(x, y)
RMinOf(S) == CHOOSE x \in S : \A y \in S : RLe(x, y)

\* A value built on Math.sqrt or Math.pow, kept as the term that defines it.
Term(op, args) == <<op, args, 0>>

\* The sum of a sequence of numbers, as reduce computes it.
RSum(arr) ==
    LET Step(sum, k) == RAdd(sum, At(arr, k))
    IN  Iterate(Step, R(0), 0, Len(arr))

\* The squares of the distances of the entries from m.
Squares(arr, m) ==
    LET Step(out, k) == Append(out, RMul(RSub(At(arr, k), m), RSub(At(arr, k), m)))
    IN  Iterate(Step, <<>>, 0, Len(arr))

\* arr.filter(r => r < 0)
Negatives(arr) ==
    LET Step(out, k) == IF RLt(At(arr, k), R(0)) THEN Append(out, At(arr, k)) ELSE out
    IN  Iterate(Step, <<>>, 0, Len(arr))

\* arr.sort((a, b) => a - b)[n].  With a NaN among several entries the
\* comparator is inconsistent and the order is implementation-defined: the
\* value is kept as the term that names it.
SortedAt(arr, n) ==
    IF n >= Len(arr) THEN Undef
    ELSE IF Len(arr) = 1 THEN arr[1]
    ELSE IF \E k \in 1..Len(arr) : ~IsNum(arr[k]) THEN Term("sorted", <<arr, n>>)
    ELSE LET v == CHOOSE x \in {arr[k] : k \in 1..Len(arr)} :
                      /\ Cardinality({k \in 1..Len(arr) : RLt(arr[k], x)}) <= n
                      /\ Cardinality({k \in 1..Len(arr) : RLe(arr[k], x)}) > n
         IN  v

\* The sum of exitTime - entryTime over the trades.
RECURSIVE SumDuration(_)
SumDuration(ts) ==
    IF ts = <<>> THEN 0 ELSE Head(ts).exitTime - Head(ts).entryTime + SumDuration(Tail(ts))

MillisPerDay == 1000 * 60 * 60 * 24

\* The object returned when no trade was closed.
ZeroMetrics ==
    [totalPnL |-> 0, totalPnLPercent |-> R(0), cagr |-> R(0), sharpe |-> R(0),
     sortino |-> R(0), calmar |-> R(0), maxDrawdown |-> R(0), maxDrawdownPercent |-> R(0),
     volatility |-> R(0), tradeCount |-> 0, winRate |-> R(0), avgTradeDuration |-> R(0),
     largestWin |-> R(0), largestLoss |-> R(0), turnover |-> 0, var95 |-> R(0),
     leverage |-> 0, beta |-> R(1)]

\* returnStd > 0 ? (avgReturn / returnStd) * Math.sqrt(252) : 0
Ratio(op, avgReturn, variance) ==
    IF RGt(variance, R(0)) THEN Term(op, <<avgReturn, variance>>) ELSE R(0)

\* (Math.pow(last / first, 1 / timePeriod) - 1) * 100
Cagr(eq) ==
    IF At(eq, Len(eq) - 1) = At(eq, 0) /\ IsNum(At(eq, 0)) /\ At(eq, 0) # R(0) THEN R(0)
    ELSE Term("cagr", <<RDiv(At(eq, Len(eq) - 1), At(eq, 0)),
                        IF Len(eq) > 1 THEN <<Len(eq) - 1, 252>> ELSE R(1)>>)

\* Lines 147-194: the metrics computed from the trades, the returns and the
\* equity curve.  The drawdown is measured from the first occurrence of the
\* highest equity value to the lowest value at or after it.
Metrics(ts, rets, eq) ==
    LET winning == {k \in 1..Len(ts) : ts[k].pnl > 0}
        losing == {k \in 1..Len(ts) : ts[k].pnl < 0}
        totalPnL == SumPnl(ts)
        avgReturn == IF Len(rets) > 0 THEN RDiv(RSum(rets), R(Len(rets))) ELSE R(0)
        returnVariance == RDiv(RSum(Squares(rets, avgReturn)), R(Len(rets)))
        downside == Negatives(rets)
        downsideVariance == IF Len(downside) > 0
                            THEN RDiv(RSum(Squares(downside, R(0))), R(Len(downside)))
                            ELSE R(0)
        maxEquity == RMaxOf({eq[k] : k \in 1..Len(eq)})
        maxEquityIndex == CHOOSE k \in 1..Len(eq) :
                              eq[k] = maxEquity /\ \A j \in 1..(k - 1) : eq[j] # maxEquity
        minEquityAfterMax == RMinOf({eq[k] : k \in maxEquityIndex..Len(eq)})
        maxDrawdown == RSub(maxEquity, minEquityAfterMax)
        maxDrawdownPercent == RMul(RDiv(maxDrawdown, maxEquity), R(100))
    IN  [totalPnL |-> totalPnL,
         totalPnLPercent |-> RMul(RDiv(R(totalPnL), R(10000)), R(100)),
         cagr |-> Cagr(eq),
         sharpe |-> Ratio("sharpe", avgReturn, returnVariance),
         sortino |-> Ratio("sortino", avgReturn, downsideVariance),
         calmar |-> IF RGt(maxDrawdownPercent, R(0)) /\ Cagr(eq) # R(0)
                    THEN Term("calmar", <<Cagr(eq), maxDrawdownPercent>>) ELSE R(0),
         maxDrawdown |-> maxDrawdown,
         maxDrawdownPercent |-> maxDrawdownPercent,
         volatility |-> IF returnVariance = R(0) \/ ~IsNum(returnVariance)
                        THEN returnVariance ELSE Term("volatility", <<returnVariance>>),
         tradeCount |-> Len(ts),
         winRate |-> RMul(RDiv(R(Cardinality(winning)), R(Len(ts))), R(100)),
         avgTradeDuration |-> RDiv(RDiv(R(SumDuration(ts)), R(Len(ts))), R(MillisPerDay)),
         largestWin |-> IF winning # {} THEN RMaxOf({ts[k].pnlPercent : k \in winning})
                        ELSE R(0),
         largestLoss |-> IF losing # {} THEN RMinOf({ts[k].pnlPercent : k \in losing})
                         ELSE R(0),
         turnover |-> 100,
         var95 |-> IF Len(rets) > 0 THEN SortedAt(rets, Len(rets) \div 20) ELSE R(0),
         leverage |-> 95,
         beta |-> R(1)]

\* calculateMetrics without its `totalTrades === 0` return.
calculateMetricsUnguarded(ts, rets, eq) == Metrics(ts, rets, eq)

\* calculateMetrics: the zero object when no trade was closed.
calculateMetrics(ts, rets, eq) ==
    IF Len(ts) = 0 THEN ZeroMetrics ELSE Metrics(ts, rets, eq)

\* calculateDrawdown with the peak left at equity[0].
calculateDrawdownFixedPeak(eq) ==
    LET Step(dd, k) == Append(dd, RMul(RDiv(RSub(At(eq, 0), At(eq, k)), At(eq, 0)), R(100)))
    IN  Iterate(Step, <<>>, 0, Len(eq))

\* calculateDrawdown, its loop on the state <<peak, drawdown>>.
calculateDrawdown(eq) ==
    LET Step(st, k) ==
            LET peak == IF RGt(At(eq, k), st[1]) THEN At(eq, k) ELSE st[1]
            IN  <<peak, Append(st[2], RMul(RDiv(RSub(peak, At(eq, k)), peak), R(100)))>>
    IN  Iterate(Step, <<At(eq, 0), <<>>>>, 0, Len(eq))[2]

\* Lines 85-87: the buy-and-hold curve, one point per bar from startIndex on.
Benchmark(data, portfolioValue) ==
    LET startIndex == StartIndex(data)
    IN  IF Len(data) > startIndex
        THEN [k \in 1..(Len(data) - startIndex) |->
                 RMul(RDiv(R(data[startIndex + k]), R(data[startIndex + 1])),
                      R(portfolioValue))]
        ELSE <<>>

(***************************************************************************)
(* Inputs of the model                                                     *)
(***************************************************************************)
\* Bars after the warm-up offset in a drawn series.
MaxBars == 3
\* runBacktest calls made in one process by RunAgain.
MaxRuns == 2

\* Every drawn series opens with WarmUpBars bars at the close 100; the bars
\* after them are the ones the loop of runBacktest processes.
WarmUp == [k \in 1..WarmUpBars |-> 100]

\* A close of 0 is a bar the loop skips.
TailPrices == {0, 90, 100, 120}

SeqsUpTo(S, n) == UNION {[1..k -> S] : k \in 0..n}

DataSet == {WarmUp \o t : t \in SeqsUpTo(TailPrices, MaxBars)}

RiskManagement(stopLoss, takeProfit, size) ==
    [stopLoss |-> stopLoss, takeProfit |-> takeProfit, positionSize |-> size]

Strategy(entryConditions, exitConditions, riskManagement) ==
    [entryConditions |-> entryConditions, exitConditions |-> exitConditions,
     riskManagement |-> riskManagement]

EntryConditionSets ==
    { <<>>,
      <<Condition(Price, ">", 95)>>,
      <<Condition(Price, "<", 95)>>,
      <<Condition(EMA20, ">", 100)>> }

ExitConditionSets ==
    { <<>>,
      <<Condition(Price, ">", 110)>>,
      <<Condition(Price, ">=", 100), Condition(Price, "<=", 100)>> }

RiskSets ==
    {RiskManagement(sl[1], sl[2], size) : sl \in {<<10, 20>>, <<50, 100>>}, size \in {50, 100}}

StrategySet ==
    {Strategy(en, ex, rm) : en \in EntryConditionSets, ex \in ExitConditionSets, rm \in RiskSets}

\* The inputs of RunAgain: series of one length, so that two runs of a
\* process can meet on the cache keys.
RunsData == {WarmUp \o t : t \in [1..2 -> {90, 120}]}

RunsStrategies ==
    { Strategy(<<Condition(Price, ">", 95)>>, <<Condition(Price, ">", 110)>>,
               RiskManagement(50, 100, 100)),
      Strategy(<<Condition(EMA20, ">", 100)>>, <<>>, RiskManagement(50, 100, 100)) }

\* Direct calls: how many, and on inputs of what length.
MaxCalls == 2
MaxLen == 3

CallBars == SeqsUpTo({1, 3}, MaxLen)
CallSeries == {Prices(B, Len(B) - 1) : B \in CallBars}
CallPeriods == {1, 2}
CallMACDPeriods == {<<1, 2, 1>>, <<1, 2, 2>>}
CallIndicators == {Price, EMAp(2), UnknownIndicator}

\* The periods a sweep runs through, and its inputs.
MaxSweep == 520
SweepBars == {<<>>, <<1>>, <<1, 3>>}

(***************************************************************************)
(* State                                                                   *)
(***************************************************************************)
VARIABLES
    data,             \* the bar series of the current run (closes)
    strategy,         \* the strategy of the current run
    pc,               \* idle | exit | entry | finish | done | threw
    i,                \* the loop index of runBacktest
    currentPosition, entryPrice, entryTime, positionSize, portfolioValue,
    equity, equityIndex, returns, trades,
    metrics, drawdown,\* the outputs computed after the loop
    valueCache,       \* module-level Map of getIndicatorValue
    indicatorCache,   \* module-level Map of calculateEMA / RSI / MACD
    runs,             \* runBacktest calls started so far
    lastCall,         \* the latest direct call of an exported indicator function
    lastResult,       \* what that call returned
    calls,            \* direct calls made so far
    sweep,            \* the parameter sweep under way, if any
    sockets,          \* the WebSocket objects created so far: their readyState
    socket,           \* WebSocketService.socket: an index into sockets, 0 for null
    reconnectAttempts,\* WebSocketService.reconnectAttempts
    timers,           \* setTimeout callbacks of tryReconnect not yet run
    stopped           \* the caller's latest call was disconnect() on a connected service

runVars == <<data, strategy, pc, i, currentPosition, entryPrice, entryTime, positionSize,
             portfolioValue, equity, equityIndex, returns, trades, metrics, drawdown, runs>>
callVars == <<lastCall, lastResult, calls, sweep>>
socketVars == <<sockets, socket, reconnectAttempts, timers, stopped>>
vars == <<runVars, valueCache, indicatorCache, callVars, socketVars>>

\* The locals of the run in progress, as the record the step operators take.
Locals ==
    [pc |-> pc, i |-> i, currentPosition |-> currentPosition, entryPrice |-> entryPrice,
     entryTime |-> entryTime, positionSize |-> positionSize,
     portfolioValue |-> portfolioValue, equity |-> equity, equityIndex |-> equityIndex,
     returns |-> returns, trades |-> trades, vc |-> valueCache, ic |-> indicatorCache]

Install(s) ==
    /\ pc' = s.pc
    /\ i' = s.i
    /\ currentPosition' = s.currentPosition
    /\ entryPrice' = s.entryPrice
    /\ entryTime' = s.entryTime
    /\ positionSize' = s.positionSize
    /\ portfolioValue' = s.portfolioValue
    /\ equity' = s.equity
    /\ equityIndex' = s.equityIndex
    /\ returns' = s.returns
    /\ trades' = s.trades
    /\ valueCache' = s.vc
    /\ indicatorCache' = s.ic

NoCall == [fn |-> "none", data |-> <<>>, args |-> <<>>]

Init ==
    /\ data = <<>>
    /\ strategy = Strategy(<<>>, <<>>, RiskManagement(0, 0, 0))
    /\ pc = "idle"
    /\ i = 0
    /\ currentPosition = "none"
    /\ entryPrice = 0
    /\ entryTime = 0
    /\ positionSize = 0
    /\ portfolioValue = InitialCapital
    /\ equity = <<>>
    /\ equityIndex = 0
    /\ returns = <<>>
    /\ trades = <<>>
    /\ metrics = ZeroMetrics
    /\ drawdown = <<>>
    /\ valueCache = <<>>
    /\ indicatorCache = <<>>
    /\ runs = 0
    /\ lastCall = NoCall
    /\ lastResult = <<>>
    /\ calls = 0
    /\ sweep = NoCall
    /\ sockets = <<>>
    /\ socket = 0
    /\ reconnectAttempts = 0
    /\ timers = 0
    /\ stopped = FALSE

(***************************************************************************)
(* runBacktest as actions: one call, two steps per bar, one step after     *)
(* the loop                                                                *)
(***************************************************************************)
Begin(B, S) ==
    /\ data' = B
    /\ strategy' = S
    /\ runs' = runs + 1
    /\ Install(BeginRun(B, S, valueCache, indicatorCache))
    /\ UNCHANGED <<metrics, drawdown, callVars, socketVars>>

\* The first runBacktest call of the process.
StartRun ==
    /\ pc = "idle"
    /\ runs = 0
    /\ \E B \in DataSet, S \in StrategySet : Begin(B, S)

ExitPhase ==
    /\ pc = "exit"
    /\ Install(ExitStep(data, strategy, Locals))
    /\ UNCHANGED <<data, strategy, runs, metrics, drawdown, callVars, socketVars>>

EntryPhase ==
    /\ pc = "entry"
    /\ Install(EntryStep(data, strategy, Locals))
    /\ UNCHANGED <<data, strategy, runs, metrics, drawdown, callVars, socketVars>>

\* Lines 80-95: the equity array is cut to the points written, then the
\* metrics and the drawdown series are computed.
Finish ==
    /\ pc = "finish"
    /\ pc' = "done"
    /\ equity' = SetLength(equity, equityIndex)
    /\ metrics' = calculateMetrics(trades, returns, equity')
    /\ drawdown' = calculateDrawdown(equity')
    /\ UNCHANGED <<data, strategy, runs, i, currentPosition, entryPrice, entryTime,
                   positionSize, portfolioValue, equityIndex, returns, trades,
                   valueCache, indicatorCache, callVars, socketVars>>

Next == StartRun \/ ExitPhase \/ EntryPhase \/ Finish

Spec == Init /\ [][Next]_vars

\* A later runBacktest call of the same process: the module-level caches
\* are what the earlier calls left.
RunAgain ==
    /\ pc \in {"idle", "done", "threw"}
    /\ runs < MaxRuns
    /\ \E B \in RunsData, S \in RunsStrategies : Begin(B, S)

NextRuns == RunAgain \/ ExitPhase \/ EntryPhase \/ Finish

SpecRuns == Init /\ [][NextRuns]_vars

(***************************************************************************)
(* Direct calls of the exported indicator functions                        *)
(***************************************************************************)
Call(fn, input, args) == [fn |-> fn, data |-> input, args |-> args]

\* The call returns: its result and the caches it leaves.
Return(call, result, vc, ic) ==
    /\ lastCall' = call
    /\ lastResult' = result
    /\ valueCache' = vc
    /\ indicatorCache' = ic
    /\ calls' = calls + 1
    /\ UNCHANGED <<runVars, sweep, socketVars>>

ReturnSeries(call, r) == Return(call, r.result, valueCache, r.ic)
ReturnMACD(call, r) ==
    Return(call, [macdLine |-> r.macdLine, signalLine |-> r.signalLine,
                  histogram |-> r.histogram], valueCache, r.ic)
ReturnValue(call, r) == Return(call, r.value, r.vc, r.ic)

CallEMA ==
    /\ calls < MaxCalls
    /\ \E S \in CallSeries, period \in CallPeriods :
          ReturnSeries(Call("calculateEMA", S, <<period>>),
                       calculateEMA(S, period, indicatorCache))

CallRSI ==
    /\ calls < MaxCalls
    /\ \E S \in CallSeries, period \in CallPeriods :
          ReturnSeries(Call("calculateRSI", S, <<period>>),
                       calculateRSI(S, period, indicatorCache))

CallMACD ==
    /\ calls < MaxCalls
    /\ \E S \in CallSeries, periods \in CallMACDPeriods :
          ReturnMACD(Call("calculateMACD", S, periods),
                     calculateMACD(S, periods[1], periods[2], periods[3], indicatorCache))

CallGetIndicatorValue ==
    /\ calls < MaxCalls
    /\ \E B \in CallBars, indicator \in CallIndicators :
          \E index \in 0..(Len(B) - 1) :
              ReturnValue(Call("getIndicatorValue", B, <<indicator, index>>),
                          getIndicatorValue(B, indicator, index, valueCache, indicatorCache))

\* clearIndicatorCaches()
CallClear ==
    /\ calls < MaxCalls
    /\ Return(Call("clearIndicatorCaches", <<>>, <<>>), <<>>, <<>>, <<>>)

NextCalls == CallEMA \/ CallRSI \/ CallMACD \/ CallGetIndicatorValue \/ CallClear

SpecCalls == Init /\ [][NextCalls]_vars

(***************************************************************************)
(* A parameter sweep: one indicator function called on one short input     *)
(* with the periods 1, 2, 3, ... in turn                                   *)
(***************************************************************************)
SweepStart ==
    /\ sweep = NoCall
    /\ calls = 0
    /\ \E fn \in {"calculateEMA", "calculateRSI", "getIndicatorValue"}, B \in SweepBars :
          sweep' = Call(fn, B, <<>>)
    /\ UNCHANGED <<runVars, valueCache, indicatorCache, lastCall, lastResult, calls,
                   socketVars>>

SweepEMA ==
    /\ sweep.fn = "calculateEMA"
    /\ calls < MaxSweep
    /\ ReturnSeries(Call("calculateEMA", sweep.data, <<calls + 1>>),
                         calculateEMA(Prices(sweep.data, Len(sweep.data) - 1), calls + 1,
                                      indicatorCache))

SweepRSI ==
    /\ sweep.fn = "calculateRSI"
    /\ calls < MaxSweep
    /\ ReturnSeries(Call("calculateRSI", sweep.data, <<calls + 1>>),
                         calculateRSI(Prices(sweep.data, Len(sweep.data) - 1), calls + 1,
                                      indicatorCache))

SweepValue ==
    /\ sweep.fn = "getIndicatorValue"
    /\ calls < MaxSweep
    /\ ReturnValue(Call("getIndicatorValue", sweep.data, <<calls + 1>>),
                        getIndicatorValue(sweep.data, EMAp(calls + 1), Len(sweep.data) - 1,
                                          valueCache, indicatorCache))

NextSweep == SweepStart \/ SweepEMA \/ SweepRSI \/ SweepValue

SpecSweep == Init /\ [][NextSweep]_vars

(***************************************************************************)
(* Vocabulary of the properties                                            *)
(***************************************************************************)
\* The bar whose timestamp is t.
BarOf(t) == t - 1

Close(j) == data[j + 1]

\* The value of an indicator at a bar, computed with both caches empty.
IndicatorAt(B, indicator, index) == getIndicatorValue(B, indicator, index, <<>>, <<>>).value

\* Every condition of the list holds at the bar.
AllHold(B, conditions, index) ==
    \A k \in 1..Len(conditions) :
        Compare(IndicatorAt(B, conditions[k].indicator, index),
                conditions[k].operator, conditions[k].value)

\* The close breaches the stop-loss or the take-profit level of a long
\* position entered at `entry`.
Breach(entry, close) ==
    \/ close * 100 <= entry * (100 - strategy.riskManagement.stopLoss)
    \/ close * 100 >= entry * (100 + strategy.riskManagement.takeProfit)

Sign(type) == IF type = "long" THEN 1 ELSE -1

(***************************************************************************)
(* C1.  A position closed at bar i is not re-opened at bar i: no trade's   *)
(* entryTime equals the exitTime of the trade before it, and an open       *)
(* position was entered after the last exit.                               *)
(* The loop tests `currentPosition === 'none'` right after the exit block  *)
(* of the same bar, so this is violated.                                   *)
(***************************************************************************)
C1_NoReentryOnExitBar ==
    /\ \A k \in 1..(Len(trades) - 1) : trades[k + 1].entryTime # trades[k].exitTime
    /\ currentPosition # "none" /\ trades # <<>> => entryTime # trades[Len(trades)].exitTime

(***************************************************************************)
(* C2.  At most one position is open: the state is one of none / long /    *)
(* short; while a position is open no step changes entryPrice, entryTime   *)
(* or the quantity, so an entry is taken only from 'none'; and the holding *)
(* intervals of the trades do not overlap.                                 *)
(***************************************************************************)
C2_State ==
    /\ currentPosition \in {"none", "long", "short"}
    /\ \A k \in 1..(Len(trades) - 1) : trades[k + 1].entryTime >= trades[k].exitTime

C2_Step ==
    currentPosition # "none" =>
        /\ entryPrice' = entryPrice
        /\ entryTime' = entryTime
        /\ positionSize' = positionSize
        /\ currentPosition' \in {currentPosition, "none"}

C2_SinglePosition == []C2_State /\ [][C2_Step]_vars

\* An entry signal held on every bar, a trade was closed, and the position
\* now open has been held through a whole later bar.
C2_Witness ==
    /\ strategy.entryConditions = <<>>
    /\ currentPosition = "long"
    /\ Len(trades) >= 1
    /\ Timestamp(i) > entryTime + 1

(***************************************************************************)
(* C3.  Every trade's pnl is (exitPrice - entryPrice) * quantity * sign,   *)
(* with entryPrice the close of the entry bar, exitPrice the close of the  *)
(* exit bar and quantity the size fixed at entry from the portfolio value  *)
(* of that moment.                                                         *)
(***************************************************************************)
C3_TradePnl ==
    \A k \in 1..Len(trades) :
        /\ trades[k].pnl =
              (trades[k].exitPrice - trades[k].entryPrice) * trades[k].quantity
                  * Sign(trades[k].type)
        /\ trades[k].entryPrice = Close(BarOf(trades[k].entryTime))
        /\ trades[k].exitPrice = Close(BarOf(trades[k].exitTime))
        /\ trades[k].quantity * trades[k].entryPrice * 100
              <= (InitialCapital + SumPnl(SubSeq(trades, 1, k - 1))) * 95
        /\ (trades[k].quantity + 1) * trades[k].entryPrice * 100
              > (InitialCapital + SumPnl(SubSeq(trades, 1, k - 1))) * 95

\* A winning and a losing trade in one ledger.
C3_Witness ==
    /\ \E k \in 1..Len(trades) : trades[k].pnl > 0
    /\ \E k \in 1..Len(trades) : trades[k].pnl < 0

(***************************************************************************)
(* C4.  On a bar with a non-zero close on which a long position is open,   *)
(* the position is closed iff all exit conditions hold at the bar or the   *)
(* close breaches the stop-loss or take-profit level; closing appends      *)
(* exactly one trade, with exitPrice the close and exitTime the timestamp  *)
(* of the bar, and leaves the state 'none'.                                *)
(***************************************************************************)
C4_Step ==
    pc = "exit" /\ currentPosition = "long" /\ Close(i) # 0 =>
        IF AllHold(data, strategy.exitConditions, i) \/ Breach(entryPrice, Close(i))
        THEN /\ Len(trades') = Len(trades) + 1
             /\ SubSeq(trades', 1, Len(trades)) = trades
             /\ trades'[Len(trades')].exitPrice = Close(i)
             /\ trades'[Len(trades')].exitTime = Timestamp(i)
             /\ trades'[Len(trades')].entryPrice = entryPrice
             /\ currentPosition' = "none"
        ELSE /\ trades' = trades
             /\ currentPosition' = "long"

C4_ExitIffTriggered == [][C4_Step]_vars

\* A trade closed by the stop-loss alone, at the exact stop level, and one
\* closed by the exit conditions alone.
C4_Witness ==
    /\ \E k \in 1..Len(trades) :
          /\ ~AllHold(data, strategy.exitConditions, BarOf(trades[k].exitTime))
          /\ trades[k].exitPrice * 100
                = trades[k].entryPrice * (100 - strategy.riskManagement.stopLoss)
    /\ \E k \in 1..Len(trades) :
          /\ AllHold(data, strategy.exitConditions, BarOf(trades[k].exitTime))
          /\ ~Breach(trades[k].entryPrice, trades[k].exitPrice)

(***************************************************************************)
(* C5.  A position is sized by riskManagement.positionSize percent of the  *)
(* portfolio value at the entry bar's close: quantity is the whole number  *)
(* of units that positionSize% of the portfolio value buys.                *)
(* The code reads positionSize into a local and overwrites it at entry     *)
(* with Math.floor(portfolioValue * 0.95 / currentPrice), so this is       *)
(* violated for every positionSize but 95.                                 *)
(***************************************************************************)
C5_SizedByPercent ==
    currentPosition = "long" =>
        /\ positionSize * entryPrice * 100
              <= portfolioValue * strategy.riskManagement.positionSize
        /\ (positionSize + 1) * entryPrice * 100
              > portfolioValue * strategy.riskManagement.positionSize

(***************************************************************************)
(* C6.  The equity point recorded for a bar is the realised portfolio      *)
(* value plus the open long position marked to market at the bar's close.  *)
(* The code records portfolioValue alone, so this is violated on a bar     *)
(* that holds a position away from its entry price.                        *)
(***************************************************************************)
C6_Step ==
    pc = "entry" =>
        At(equity', equityIndex) =
            R(portfolioValue'
              + IF currentPosition' = "long"
                THEN (Close(i) - entryPrice') * positionSize' ELSE 0)

C6_EquityMarkedToMarket == [][C6_Step]_vars

(***************************************************************************)
(* C7.  No force-close.  When the run is done: every trade of the ledger   *)
(* was closed by an exit trigger that held at its own exit bar; a position *)
(* still open has no trade; and the last equity point and totalPnL hold    *)
(* realised P&L only.                                                      *)
(***************************************************************************)
C7_NoForceClose ==
    pc = "done" =>
        /\ \A k \in 1..Len(trades) :
              \/ AllHold(data, strategy.exitConditions, BarOf(trades[k].exitTime))
              \/ Breach(trades[k].entryPrice, trades[k].exitPrice)
        /\ currentPosition # "none" =>
              \A k \in 1..Len(trades) : trades[k].entryTime # entryTime
        /\ equity[Len(equity)] = R(InitialCapital + SumPnl(trades))
        /\ metrics.totalPnL = SumPnl(trades)
        /\ metrics.tradeCount = Len(trades)

\* The run ended with a trade closed and a position open whose unrealised
\* P&L is not zero.
C7_Witness ==
    /\ pc = "done"
    /\ currentPosition = "long"
    /\ Len(trades) >= 1
    /\ (data[Len(data)] - entryPrice) * positionSize # 0


(***************************************************************************)
(* The outputs of a backtest that runs first in its process                *)
(***************************************************************************)
\* One iteration of the loop: both steps of bar s.i.
AfterExit(B, S, e) == IF e.pc = "entry" THEN EntryStep(B, S, e) ELSE e
BarStep(B, S, s) == IF s.pc = "exit" THEN AfterExit(B, S, ExitStep(B, S, s)) ELSE s

\* The loop from the locals s to its end.
RunLoop(B, S, s) ==
    LET Step(t, j) == BarStep(B, S, t)
    IN  Iterate(Step, s, s.i, Len(B))

Outputs(ts, rets, eq) ==
    [trades |-> ts, equity |-> eq, drawdown |-> calculateDrawdown(eq),
     metrics |-> calculateMetrics(ts, rets, eq)]

OutputsOf(s) == Outputs(s.trades, s.returns, SetLength(s.equity, s.equityIndex))

RunFirst(B, S) == OutputsOf(RunLoop(B, S, BeginRun(B, S, <<>>, <<>>)))

(***************************************************************************)
(* C8.  Cache purity: whatever calls came before, a call of calculateEMA,  *)
(* calculateRSI or calculateMACD on a series with given periods returns    *)
(* what the same call returns with an empty cache.                         *)
(***************************************************************************)
C8_CachePurity ==
    /\ lastCall.fn = "calculateEMA" =>
          lastResult = calculateEMA(lastCall.data, lastCall.args[1], <<>>).result
    /\ lastCall.fn = "calculateRSI" =>
          lastResult = calculateRSI(lastCall.data, lastCall.args[1], <<>>).result
    /\ lastCall.fn = "calculateMACD" =>
          lastResult.macdLine =
              calculateMACD(lastCall.data, lastCall.args[1], lastCall.args[2],
                            lastCall.args[3], <<>>).macdLine

(***************************************************************************)
(* C9.  Backtests of one process are independent: a finished run returns   *)
(* the trades, equity, drawdown and metrics that the same call returns     *)
(* when it runs first in the process.                                      *)
(***************************************************************************)
C9_RunsIndependent ==
    pc = "done" =>
        [trades |-> trades, equity |-> equity, drawdown |-> drawdown,
         metrics |-> metrics] = RunFirst(data, strategy)

(***************************************************************************)
(* C10.  The memo caches are bounded: whenever a call has returned,        *)
(* indicatorCache holds at most CACHE_SIZE_LIMIT entries and valueCache at *)
(* most VALUE_CACHE_SIZE_LIMIT entries.                                    *)
(***************************************************************************)
C10_CachesBounded ==
    /\ Len(indicatorCache) <= CACHE_SIZE_LIMIT
    /\ Len(valueCache) <= VALUE_CACHE_SIZE_LIMIT


(***************************************************************************)
(* Runs on strategies that name indicators and operators outside the       *)
(* switches of getIndicatorValue and checkConditions, or indicators that   *)
(* have no value yet at the bars of the run                                *)
(***************************************************************************)
\* The case labels of the two switches.
KnownOperators == {">", "<", ">=", "<=", "=", "!="}
KnownIndicatorNames ==
    {"EMA (20)", "RSI (14)", "MACD (12, 26, 9)", "Bollinger Bands (20, 2)", "Price", "EMA_"}

\* A period longer than every drawn series.
LongPeriod == WarmUpBars + 10

ConfigData == {WarmUp \o t : t \in SeqsUpTo({90, 120}, 2) \ {<<>>}}

ConfigEntrySets ==
    { <<>>,
      <<Condition(Price, ">", 95)>>,
      <<Condition(UnknownIndicator, "<", 5)>>,
      <<Condition(UnknownIndicator, ">", 5)>>,
      <<Condition(Price, "crosses", 95)>>,
      <<Condition(Bollinger, "<", 5)>>,
      <<Condition(EMAp(LongPeriod), "<=", 50)>>,
      <<Condition(Price, ">", 95), Condition(EMAp(LongPeriod), "!=", 100)>> }

ConfigExitSets ==
    { <<Condition(Price, ">", 110)>>,
      <<Condition(Price, "==", 120)>>,
      <<Condition(UnknownIndicator, "=", 0)>>,
      <<Condition(EMAp(LongPeriod), "<", 1)>> }

ConfigStrategies ==
    {Strategy(en, ex, RiskManagement(50, 100, 100)) :
        en \in ConfigEntrySets, ex \in ConfigExitSets}

StartConfig ==
    /\ pc = "idle"
    /\ runs = 0
    /\ \E B \in ConfigData, S \in ConfigStrategies : Begin(B, S)

NextConfig == StartConfig \/ ExitPhase \/ EntryPhase \/ Finish

SpecConfig == Init /\ [][NextConfig]_vars

\* The conditions of a strategy, entry and exit.
ConditionsOf(S) ==
    {S.entryConditions[k] : k \in 1..Len(S.entryConditions)}
        \cup {S.exitConditions[k] : k \in 1..Len(S.exitConditions)}

\* The strategy names an indicator or an operator that no case label matches.
ConfigError(S) ==
    \E c \in ConditionsOf(S) :
        c.indicator.name \notin KnownIndicatorNames \/ c.operator \notin KnownOperators

(***************************************************************************)
(* C11.  A strategy with an unknown indicator name or an unknown operator  *)
(* is rejected before any bar is simulated: the run never reaches the loop *)
(* and returns no result.                                                  *)
(* Neither switch rejects: the default branches give the value 0 and the   *)
(* verdict false, and the run goes on, so this is violated.                *)
(***************************************************************************)
C11_ConfigErrorRejected ==
    ConfigError(strategy) => pc \notin {"exit", "entry", "finish", "done"}


(***************************************************************************)
(* Runs on series no longer than the warm-up offset                        *)
(***************************************************************************)
\* Every length from the empty series up to the offset itself.
ShortData == {[k \in 1..n |-> c] : n \in 0..WarmUpBars, c \in {100, 120}}

StartShort ==
    /\ pc = "idle"
    /\ runs = 0
    /\ \E B \in ShortData, S \in RunsStrategies : Begin(B, S)

NextShort == StartShort \/ Finish

SpecShort == Init /\ [][NextShort]_vars

\* No hole, no NaN.
AllNumbers(arr) == \A k \in 1..Len(arr) : IsNum(arr[k])

(***************************************************************************)
(* C12.  On a series no longer than the warm-up offset, the empty series   *)
(* included, runBacktest raises no error and returns no trades, metrics    *)
(* that are 0 in every field but beta = 1, and an equity and a drawdown    *)
(* series without undefined or NaN entries.                                *)
(* `equity.length = data.length - startIndex + 1` throws a RangeError for  *)
(* fewer than 49 bars, and 49 bars leave a hole in equity and NaN in       *)
(* drawdown, so this is violated.                                          *)
(***************************************************************************)
C12_ShortSeriesEmptyResult ==
    Len(data) <= WarmUpBars =>
        /\ pc # "threw"
        /\ pc = "done" =>
              /\ trades = <<>>
              /\ metrics = ZeroMetrics
              /\ AllNumbers(equity)
              /\ AllNumbers(drawdown)

(***************************************************************************)
(* C13.  A run that closes no trade, a run that ends with a position open  *)
(* included, returns 0 in every ratio and P&L field of the metrics; the    *)
(* divisions by the trade count are not reached.                           *)
(***************************************************************************)
C13_ZeroTradesZeroMetrics ==
    pc = "done" /\ trades = <<>> =>
        /\ metrics.totalPnL = 0
        /\ metrics.tradeCount = 0
        /\ \A f \in {"totalPnLPercent", "cagr", "sharpe", "sortino", "calmar", "maxDrawdown",
                     "maxDrawdownPercent", "volatility", "winRate", "avgTradeDuration",
                     "largestWin", "largestLoss", "var95"} : metrics[f] = R(0)

\* A run that closed no trade and ended with a position open at a close
\* away from its entry price.
C13_Witness ==
    /\ pc = "done"
    /\ trades = <<>>
    /\ currentPosition = "long"
    /\ data[Len(data)] # entryPrice

\* No entry of the series is below the one before it.
NonDecreasing(arr) == \A k \in 1..(Len(arr) - 1) : RLe(arr[k], arr[k + 1])

(***************************************************************************)
(* C14.  metrics.maxDrawdownPercent is never negative, and it is 0 exactly *)
(* when the returned equity curve never falls.                             *)
(* The code measures the fall from the highest equity value of the whole   *)
(* run to the lowest value after it, so a fall that a later all-time high  *)
(* follows is not counted and this is violated.                            *)
(***************************************************************************)
C14_DrawdownZeroIffNonDecreasing ==
    pc = "done" =>
        /\ RGe(metrics.maxDrawdownPercent, R(0))
        /\ metrics.maxDrawdownPercent = R(0) <=> NonDecreasing(equity)

(***************************************************************************)
(* C20.  For a run that closed at least one trade, metrics.maxDrawdown-    *)
(* Percent is the largest value of the drawdown series of the same run.    *)
(* calculateDrawdown follows the running peak while calculateMetrics looks *)
(* only behind the highest equity value, so this is violated.              *)
(***************************************************************************)
C20_MaxDrawdownIsSeriesMax ==
    pc = "done" /\ trades # <<>> =>
        metrics.maxDrawdownPercent = RMaxOf({drawdown[k] : k \in 1..Len(drawdown)})

(***************************************************************************)
(* The rising-series scenario: 60 daily bars closing at 100, 101, 102, ... *)
(* with the entry condition EMA(20) > 0 and the exit condition             *)
(* RSI(14) > 70                                                            *)
(***************************************************************************)
RisingBars == [k \in 1..60 |-> 99 + k]

RisingStrategies ==
    {Strategy(<<Condition(EMA20, ">", 0)>>, <<Condition(RSI14, ">", 70)>>,
              RiskManagement(sl, tp, size)) :
        sl \in {5, 10}, tp \in {5, 10, 20}, size \in {50, 100}}

StartRising ==
    /\ pc = "idle"
    /\ runs = 0
    /\ \E S \in RisingStrategies : Begin(RisingBars, S)

NextRising == StartRising \/ ExitPhase \/ EntryPhase \/ Finish

SpecRising == Init /\ [][NextRising]_vars

(***************************************************************************)
(* C15.  On the rising series the run returns exactly one trade, opened at *)
(* bar 19 and closed at the first later bar whose RSI(14) is above 70,     *)
(* with a positive pnl.                                                    *)
(* The loop starts at bar 50, and calculateRSI gives 50 on a series        *)
(* without losses (`avgLoss || 1`), so this is violated.                   *)
(***************************************************************************)
C15_RisingScenario ==
    pc = "done" =>
        /\ Len(trades) = 1
        /\ BarOf(trades[1].entryTime) = 19
        /\ trades[1].pnl > 0
        /\ RGt(IndicatorAt(data, RSI14, BarOf(trades[1].exitTime)), R(70))
        /\ \A j \in 20..(BarOf(trades[1].exitTime) - 1) :
              ~RGt(IndicatorAt(data, RSI14, j), R(70))

(***************************************************************************)
(* Runs on series around the length at which a tenth of the bars exceeds   *)
(* the warm-up offset                                                      *)
(***************************************************************************)
\* The least length whose tenth is above WarmUpBars.
LookAheadBars == 10 * (WarmUpBars + 1)

\* Flat series with one high close right after the offset.
LongData ==
    {[k \in 1..n |-> IF k = WarmUpBars + 2 THEN 120 ELSE 100] :
        n \in {LookAheadBars - 1, LookAheadBars}}

LongStrategies ==
    { Strategy(<<Condition(Price, ">", 95)>>, <<Condition(Price, ">", 110)>>,
               RiskManagement(50, 100, 100)),
      Strategy(<<Condition(Price, ">", 110)>>, <<Condition(Price, "<", 110)>>,
               RiskManagement(50, 100, 100)) }

StartLong ==
    /\ pc = "idle"
    /\ runs = 0
    /\ \E B \in LongData, S \in LongStrategies : Begin(B, S)

NextLong == StartLong \/ ExitPhase \/ EntryPhase \/ Finish

SpecLong == Init /\ [][NextLong]_vars

\* The trades of a ledger closed at bar j or before, and the bars up to j
\* at which a position of the run was opened.
ClosedBy(ts, j) == {ts[k] : k \in {n \in 1..Len(ts) : ts[n].exitTime <= Timestamp(j)}}
EntriesBy(ts, position, entered, j) ==
    {ts[k].entryTime : k \in {n \in 1..Len(ts) : ts[n].entryTime <= Timestamp(j)}}
        \cup (IF position # "none" /\ entered <= Timestamp(j) THEN {entered} ELSE {})

\* The run on B from empty caches, and its decisions up to bar j.
DecisionsOf(s, j) ==
    [closed |-> ClosedBy(s.trades, j),
     entries |-> EntriesBy(s.trades, s.currentPosition, s.entryTime, j)]
DecisionsFirst(B, S, j) == DecisionsOf(RunLoop(B, S, BeginRun(B, S, <<>>, <<>>)), j)

(***************************************************************************)
(* C16.  No look-ahead: the entries, the exits and the trades closed up to *)
(* the last bar of a prefix are the same for the prefix and for the whole  *)
(* series (here: the series without its last bar against the series).      *)
(* The first bar of the loop is Math.max(50, Math.floor(data.length * 0.1))*)
(* and so depends on how many bars follow; at 510 bars the loop starts one *)
(* bar later than at 509, so this is violated.                             *)
(***************************************************************************)
C16_NoLookAhead ==
    pc = "done" /\ Len(data) > WarmUpBars + 1 =>
        [closed |-> ClosedBy(trades, Len(data) - 2),
         entries |-> EntriesBy(trades, currentPosition, entryTime, Len(data) - 2)]
            = DecisionsFirst(SubSeq(data, 1, Len(data) - 1), strategy, Len(data) - 2)

\* The indicator has no value at the bar: fewer bars than its period, or
\* an indicator no series is computed for.
UndefinedAt(indicator, index) ==
    \/ indicator.name = "EMA_" /\ indicator.arg > index + 1
    \/ indicator.name = "EMA (20)" /\ 20 > index + 1
    \/ indicator.name = "RSI (14)" /\ 14 > index
    \/ indicator.name = "MACD (12, 26, 9)" /\ 26 > index + 1
    \/ indicator.name = "Bollinger Bands (20, 2)"
    \/ indicator.name \notin KnownIndicatorNames

OnUndefined(conditions, index) ==
    \E k \in 1..Len(conditions) : UndefinedAt(conditions[k].indicator, index)

(***************************************************************************)
(* C17.  A condition on an indicator that has no value at bar i never      *)
(* makes a signal: no entry is taken at the bar on a list that holds such  *)
(* a condition, and no exit is taken on such a list unless the stop-loss   *)
(* or take-profit level is breached.                                       *)
(* getIndicatorValue turns the missing value into 0 (`|| 0`, `value = 0`)  *)
(* and the comparison is made on that 0, so this is violated.              *)
(***************************************************************************)
C17_Step ==
    /\ pc = "entry" /\ currentPosition = "none" /\ OnUndefined(strategy.entryConditions, i)
          => currentPosition' = "none"
    /\ pc = "exit" /\ currentPosition = "long" /\ Close(i) # 0
          /\ OnUndefined(strategy.exitConditions, i) /\ ~Breach(entryPrice, Close(i))
          => currentPosition' = "long"

C17_UndefinedNeverSignals == [][C17_Step]_vars

(***************************************************************************)
(* C18.  checkConditions is the AND of its list and true on the empty      *)
(* list.  So a flat run enters at a processed bar exactly when every entry *)
(* condition holds there; with no entry conditions it enters at every      *)
(* processed bar on which it is flat, and with no exit conditions it       *)
(* closes every open position at the next processed bar.  The function     *)
(* itself is compared with the AND of the comparisons at the last bar of   *)
(* each run, on both lists of the strategy and on the empty list.          *)
(***************************************************************************)
C18_State ==
    pc = "finish" =>
        /\ checkConditions(data, <<>>, i - 1, <<>>, <<>>).ok
        /\ \A conditions \in {strategy.entryConditions, strategy.exitConditions} :
              checkConditions(data, conditions, i - 1, <<>>, <<>>).ok
                  <=> AllHold(data, conditions, i - 1)

C18_Step ==
    /\ pc = "entry" /\ currentPosition = "none" =>
          /\ currentPosition' = "long" <=> AllHold(data, strategy.entryConditions, i)
          /\ strategy.entryConditions = <<>> =>
                currentPosition' = "long" /\ entryTime' = Timestamp(i)
    /\ pc = "exit" /\ currentPosition = "long" /\ Close(i) # 0 =>
          /\ strategy.exitConditions = <<>> => currentPosition' = "none"
          /\ ~Breach(entryPrice, Close(i)) =>
                (currentPosition' = "none" <=> AllHold(data, strategy.exitConditions, i))

C18_ConditionsAreAnd == []C18_State /\ [][C18_Step]_vars

\* A position went through the exit logic of a bar on a list of two
\* conditions of which the first held and the second did not.
C18_Witness ==
    /\ pc = "entry"
    /\ currentPosition = "long"
    /\ entryTime < Timestamp(i)
    /\ Len(strategy.exitConditions) = 2
    /\ AllHold(data, <<strategy.exitConditions[1]>>, i)
    /\ ~AllHold(data, <<strategy.exitConditions[2]>>, i)

\* The highest of the first k equity points.
PeakAt(eq, k) == RMaxOf({eq[j] : j \in 1..k})

(***************************************************************************)
(* C19.  The drawdown series of a run has the length of its equity series; *)
(* each entry is (peak - equity) / peak * 100 with peak the highest equity *)
(* point so far, which never falls; the first entry is 0 and every entry   *)
(* is at least 0 and below 100.                                            *)
(***************************************************************************)
C19_DrawdownSeries ==
    pc = "done" =>
        /\ Len(drawdown) = Len(equity)
        /\ drawdown[1] = R(0)
        /\ \A k \in 1..Len(equity) :
              /\ drawdown[k] = RMul(RDiv(RSub(PeakAt(equity, k), equity[k]),
                                         PeakAt(equity, k)), R(100))
              /\ RGe(drawdown[k], R(0))
              /\ RLt(drawdown[k], R(100))
              /\ k > 1 => RGe(PeakAt(equity, k), PeakAt(equity, k - 1))

\* A run on positive closes whose equity fell below its peak and later
\* rose above it.
C19_Witness ==
    /\ pc = "done"
    /\ \A k \in 1..Len(data) : data[k] > 0
    /\ \E k \in 1..Len(drawdown) :
          /\ RGt(drawdown[k], R(0))
          /\ \E n \in (k + 1)..Len(equity) : RGt(equity[n], PeakAt(equity, k))

\* What the portfolio is worth once bar j has been processed: the initial
\* capital plus the pnl of the trades closed at or before bar j.
ValueAfterBar(ts, j) ==
    InitialCapital + SumPnl(SelectSeq(ts, LAMBDA t : t.exitTime <= Timestamp(j)))

(***************************************************************************)
(* C21.  The returned equity curve has one point per bar from startIndex   *)
(* on: its length is data.length - startIndex, its k-th point (from 0) is  *)
(* the portfolio value of bar startIndex + k, and it has the length of the *)
(* benchmark curve.                                                        *)
(* The code seeds the array with the initial capital before the loop and   *)
(* appends one point per processed bar, so the curve is one point longer   *)
(* than the benchmark and shifted by one; this is violated.                *)
(***************************************************************************)
C21_EquityOnePointPerBar ==
    pc = "done" =>
        /\ Len(equity) = Len(data) - StartIndex(data)
        /\ Len(equity) = Len(Benchmark(data, portfolioValue))
        /\ \A k \in 0..(Len(equity) - 1) :
              At(equity, k) = R(ValueAfterBar(trades, StartIndex(data) + k))

\* The call that returned last was the first of the process: it ran against
\* empty caches.
FirstCall(fn) == calls = 1 /\ lastCall.fn = fn

\* Index k of the series holds a number.
DefinedAt(series, k) == At(series, k) # Undef

(***************************************************************************)
(* C22.  calculateEMA on an empty cache, for every input series and every  *)
(* period >= 1: the returned series has the length of the input, index i   *)
(* holds a value exactly when i >= period - 1, and index period - 1 holds  *)
(* the mean of the first `period` inputs.                                  *)
(* The seed is written at index period - 1 whatever the input length, so   *)
(* an input shorter than the period comes back longer than it went in;     *)
(* this is violated.                                                       *)
(***************************************************************************)
C22_EMASeriesShape ==
    FirstCall("calculateEMA") =>
        LET input == lastCall.data
            period == lastCall.args[1]
        IN  /\ Len(lastResult) = Len(input)
            /\ \A k \in 0..(Len(input) - 1) : DefinedAt(lastResult, k) <=> k >= period - 1
            /\ Len(input) >= period =>
                  At(lastResult, period - 1) = RDiv(RSum(SubSeq(input, 1, period)), R(period))

(***************************************************************************)
(* calculateMACD called twice in a fresh process: a miss on an empty       *)
(* cache, then a call whose key is the key of the first                    *)
(***************************************************************************)
\* The longest input of these calls.
MaxMACDLen == 5

MACDSeries == {Prices(B, Len(B) - 1) : B \in SeqsUpTo({1, 3}, MaxMACDLen)}

\* <<fastPeriod, slowPeriod, signalPeriod>> with fast < slow.
MACDPeriods == {<<1, 2>>, <<1, 3>>, <<2, 3>>} \X {1, 2, 3}

MACDOn(S, periods) ==
    ReturnMACD(Call("calculateMACD", S, <<periods[1][1], periods[1][2], periods[2]>>),
               calculateMACD(S, periods[1][1], periods[1][2], periods[2], indicatorCache))

MACDMiss ==
    /\ calls = 0
    /\ \E S \in MACDSeries, periods \in MACDPeriods : MACDOn(S, periods)

\* The same periods on a series of the same length: the key of the miss.
MACDHit ==
    /\ calls = 1
    /\ lastCall.fn = "calculateMACD"
    /\ \E S \in MACDSeries :
          /\ Len(S) = Len(lastCall.data)
          /\ MACDOn(S, <<<<lastCall.args[1], lastCall.args[2]>>, lastCall.args[3]>>)

NextMACD == MACDMiss \/ MACDHit

SpecMACD == Init /\ [][NextMACD]_vars

\* calculateMACD returned from a miss on an empty cache.
C23_State ==
    FirstCall("calculateMACD") =>
        LET n == Len(lastCall.data)
            slow == lastCall.args[2]
            signal == lastCall.args[3]
            macdLine == lastResult.macdLine
            signalLine == lastResult.signalLine
            histogram == lastResult.histogram
            compacted == Slice(macdLine, slow - 1, n)
            ema == calculateEMA(compacted, signal, <<>>).result
        IN  /\ Len(macdLine) = n
            /\ Len(signalLine) = n
            /\ Len(histogram) = n
            /\ \A k \in 0..(n - 1) :
                  /\ DefinedAt(macdLine, k) <=> k >= slow - 1
                  /\ DefinedAt(signalLine, k) <=> k >= slow + signal - 2
                  /\ DefinedAt(histogram, k) <=> k >= slow + signal - 2
                  /\ k >= slow + signal - 2 =>
                        /\ At(signalLine, k) = At(ema, k - (slow - 1))
                        /\ At(histogram, k) = RSub(At(macdLine, k), At(signalLine, k))

\* A call that follows the miss and has its key.
C23_Step ==
    /\ FirstCall("calculateMACD")
    /\ lastCall'.fn = "calculateMACD"
    /\ lastCall'.args = lastCall.args
    /\ Len(lastCall'.data) = Len(lastCall.data)
    => lastResult' = lastResult

(***************************************************************************)
(* C23.  calculateMACD on an empty cache with fast < slow: the three       *)
(* series have the input length; macdLine is defined from index slow - 1   *)
(* on, signalLine and histogram from index slow + signal - 2 on;           *)
(* signalLine[i] is the EMA(signal) of the compacted macdLine at position  *)
(* i - (slow - 1) and histogram[i] is macdLine[i] - signalLine[i]; a later *)
(* hit on the same key returns the three series of the miss.               *)
(***************************************************************************)
C23_MACDSeries == []C23_State /\ [][C23_Step]_vars

\* A hit on a series other than the one of the miss: what it returns is not
\* what its own input gives, and its signal line is defined somewhere and
\* differs from the macdLine there.
C23_Witness ==
    /\ calls = 2
    /\ lastCall.fn = "calculateMACD"
    /\ lastResult.macdLine #
           calculateMACD(lastCall.data, lastCall.args[1], lastCall.args[2],
                         lastCall.args[3], <<>>).macdLine
    /\ \E k \in 0..(Len(lastCall.data) - 1) :
          /\ DefinedAt(lastResult.histogram, k)
          /\ At(lastResult.histogram, k) # R(0)

(***************************************************************************)
(* The comparison of checkConditions applied to indicator values around    *)
(* the threshold                                                           *)
(***************************************************************************)
\* Values lie within this many steps of 0.005 on either side of a threshold.
MaxSteps == 3

CompareThresholds == {0, 70, 100}

CompareValues ==
    {Norm(t * 200 + d, 200) : t \in CompareThresholds, d \in (-MaxSteps)..MaxSteps}

\* One evaluation of the callback of `every` on the indicator value v.
CallCompare ==
    \E v \in CompareValues, operator \in KnownOperators \cup {"=="},
       t \in CompareThresholds :
        /\ lastCall' = Call("checkConditions", <<v>>, <<operator, t>>)
        /\ lastResult' = Compare(v, operator, t)
        /\ calls' = 1
        /\ UNCHANGED <<runVars, valueCache, indicatorCache, sweep, socketVars>>

NextCompare == CallCompare

SpecCompare == Init /\ [][NextCompare]_vars

\* |v - t| < 0.01, for a value v = <<n, d>> in lowest terms and an integer t.
Within(v, t) == Abs(v[1] - t * v[2]) * 100 < v[2]

(***************************************************************************)
(* C24.  In checkConditions `=` holds exactly when |v - t| < 0.01 and `!=` *)
(* exactly when |v - t| >= 0.01, for every indicator value v and every     *)
(* threshold t: the two use one tolerance and exactly one of them holds.   *)
(* Thresholds are finite numbers here; with a NaN threshold both           *)
(* comparisons of the code are false.                                      *)
(***************************************************************************)
C24_EqualityComplement ==
    lastCall.fn = "checkConditions" =>
        LET v == lastCall.data[1]
            operator == lastCall.args[1]
            t == lastCall.args[2]
        IN  /\ operator = "=" => (lastResult <=> Within(v, t))
            /\ operator = "!=" => (lastResult <=> ~Within(v, t))
            /\ Compare(v, "=", t) # Compare(v, "!=", t)

\* `=` held on a value that is not the threshold.
C24_Witness ==
    /\ lastCall.fn = "checkConditions"
    /\ lastCall.args[1] = "="
    /\ lastCall.data[1] # R(lastCall.args[2])
    /\ lastResult = TRUE

\* What least-recently-inserted eviction leaves of a cache that held
\* `before` when a call inserted the entry that is last in `after`: every
\* entry while the limit is kept, the ToKeep(limit) latest ones otherwise.
EvictsOldest(before, after, limit) ==
    LET grown == Append(before, after[Len(after)])
    IN  after = IF Len(grown) > limit THEN SliceLast(grown, ToKeep(limit)) ELSE grown

\* A step of a call on a cache within its limit: a miss inserts and evicts
\* the oldest entries, a hit leaves the cache as it is.
C25_Step ==
    /\ Len(indicatorCache) <= CACHE_SIZE_LIMIT /\ indicatorCache' # indicatorCache /\ calls' > calls
          => EvictsOldest(indicatorCache, indicatorCache', CACHE_SIZE_LIMIT)
    /\ Len(valueCache) <= VALUE_CACHE_SIZE_LIMIT /\ valueCache' # valueCache /\ calls' > calls
          => EvictsOldest(valueCache, valueCache', VALUE_CACHE_SIZE_LIMIT)
    /\ \A k \in 1..Len(indicatorCache') :
          MapHas(indicatorCache, indicatorCache'[k][1]) => indicatorCache'[k] \in
              {indicatorCache[j] : j \in 1..Len(indicatorCache)}

(***************************************************************************)
(* C25.  Eviction is least-recently-inserted: an insertion that takes      *)
(* indicatorCache (valueCache) above its limit leaves exactly the 140      *)
(* (350) most recently inserted entries, in insertion order and with the   *)
(* new entry last, and a hit changes nothing.                              *)
(* calculateRSI inserts the series of a short input without the eviction   *)
(* call, so the 201st such insertion leaves 201 entries; this is violated. *)
(***************************************************************************)
C25_EvictsOldestInserted == [][C25_Step]_vars

\* A runBacktest call is under way or has returned.
InRun == pc \in {"exit", "entry", "finish", "done"}

(***************************************************************************)
(* C26.  Accounting conservation: throughout a run portfolioValue is       *)
(* 10000 plus the pnl of the trades closed so far; in the result of a run  *)
(* on at least 50 bars the last equity point minus the first is the sum of *)
(* the trades' pnl, which is metrics.totalPnL once a trade has closed.     *)
(***************************************************************************)
C26_Conservation ==
    /\ InRun => portfolioValue = InitialCapital + SumPnl(trades)
    /\ pc = "done" /\ Len(data) >= WarmUpBars =>
          /\ RSub(equity[Len(equity)], equity[1]) = R(SumPnl(trades))
          /\ trades # <<>> => metrics.totalPnL = SumPnl(trades)

\* A finished run with a winning and a losing trade that do not cancel.
C26_Witness ==
    /\ pc = "done"
    /\ \E a, b \in 1..Len(trades) : trades[a].pnl > 0 /\ trades[b].pnl < 0
    /\ SumPnl(trades) # 0

(***************************************************************************)
(* Runs on closes far apart: a collapse from 100 to 1, or a close as high   *)
(* as the initial capital                                                  *)
(***************************************************************************)
WideData ==
    {WarmUp \o t : t \in SeqsUpTo({1, 100}, MaxBars) \cup
                          SeqsUpTo({100, InitialCapital}, MaxBars)}

WideStrategies ==
    {Strategy(<<>>, ex, rm) :
        ex \in {<<>>, <<Condition(Price, ">", 110)>>},
        rm \in {RiskManagement(10, 20, 100), RiskManagement(100, 1000000, 100)}}

StartWide ==
    /\ pc = "idle"
    /\ runs = 0
    /\ \E B \in WideData, S \in WideStrategies : Begin(B, S)

NextWide == StartWide \/ ExitPhase \/ EntryPhase \/ Finish

SpecWide == Init /\ [][NextWide]_vars

\* Every close of the series is positive.
PositiveCloses == \A k \in 1..Len(data) : data[k] > 0

(***************************************************************************)
(* C27.  Solvency: on a series whose closes are all positive,              *)
(* portfolioValue is positive in every state of the run and so is every    *)
(* equity point written.  Also: the notional of the open position is at    *)
(* most 95% of the portfolio value.                                        *)
(***************************************************************************)
C27_Solvent ==
    InRun /\ PositiveCloses =>
        /\ portfolioValue > 0
        /\ \A k \in 1..Len(equity) : equity[k] # Undef => RGt(equity[k], R(0))
        /\ currentPosition = "long" => entryPrice * positionSize * 100 <= portfolioValue * 95

\* A position closed at less than a tenth of what the portfolio was worth
\* at the entry.
C27_Witness ==
    /\ pc = "done"
    /\ PositiveCloses
    /\ \E k \in 1..(Len(equity) - 1) : RLt(RMul(equity[k + 1], R(10)), equity[k])

(***************************************************************************)
(* C28.  On positive closes every trade of the ledger has a quantity of at *)
(* least 1, so that entryPrice * quantity is not 0, and every pnlPercent,  *)
(* in the ledger and in the return series, is a number.                    *)
(* The quantity is Math.floor(portfolioValue * 0.95 / close): 0 at a close *)
(* above 95% of the portfolio value, and the trade that closes such a      *)
(* position has pnlPercent 0 / 0; this is violated.                        *)
(***************************************************************************)
C28_TradesHaveQuantity ==
    PositiveCloses =>
        /\ \A k \in 1..Len(trades) :
              /\ trades[k].quantity >= 1
              /\ trades[k].entryPrice * trades[k].quantity # 0
              /\ IsNum(trades[k].pnlPercent)
        /\ \A k \in 1..Len(returns) : IsNum(returns[k])

(***************************************************************************)
(* C29.  The exit rules are not run on the bar that opened the position:   *)
(* whenever the exit logic of a bar meets an open position, the position   *)
(* was opened at an earlier bar; so every trade's exit bar comes after its *)
(* entry bar, exitTime > entryTime, and the ledger is in time order: each  *)
(* trade exits after the one before it and enters no earlier than that one *)
(* exited.                                                                 *)
(***************************************************************************)
C29_ExitAfterEntryBar ==
    /\ pc = "exit" /\ currentPosition # "none" => BarOf(entryTime) < i
    /\ \A k \in 1..Len(trades) :
          /\ BarOf(trades[k].exitTime) > BarOf(trades[k].entryTime)
          /\ trades[k].exitTime > trades[k].entryTime
          /\ k > 1 => /\ trades[k].exitTime > trades[k - 1].exitTime
                      /\ trades[k].entryTime >= trades[k - 1].exitTime

\* Two trades, the first closed on the bar after its entry, the second
\* opened on the bar that closed the first.
C29_Witness ==
    /\ Len(trades) >= 2
    /\ BarOf(trades[1].exitTime) = BarOf(trades[1].entryTime) + 1
    /\ trades[2].entryTime = trades[1].exitTime

(***************************************************************************)
(* WebSocketService: one service, its sockets, the close events and the    *)
(* reconnect timers.  Every connect of the model uses one path.            *)
(***************************************************************************)
maxReconnectAttempts == 5

\* WebSocket objects created in one behaviour.
MaxSockets == 3

\* Lines 96-98: `new WebSocket(...)` is assigned to this.socket, whatever
\* it held; the handlers of lines 100-120 belong to the new socket.
NewSocket ==
    /\ Len(sockets) < MaxSockets
    /\ sockets' = Append(sockets, "connecting")
    /\ socket' = Len(sockets) + 1

\* The caller invokes connect(path).
Connect ==
    /\ NewSocket
    /\ stopped' = FALSE
    /\ UNCHANGED <<reconnectAttempts, timers, runVars, valueCache, indicatorCache, callVars>>

\* onopen of socket k (lines 100-104).
OnOpen ==
    \E k \in 1..Len(sockets) :
        /\ sockets[k] = "connecting"
        /\ sockets' = [sockets EXCEPT ![k] = "open"]
        /\ reconnectAttempts' = 0
        /\ UNCHANGED <<socket, timers, stopped, runVars, valueCache, indicatorCache, callVars>>

\* The connection of socket k fails or is closed by the server: its close
\* event is pending.  onerror (lines 117-120) only rejects the promise.
Drop ==
    \E k \in 1..Len(sockets) :
        /\ sockets[k] \in {"connecting", "open"}
        /\ sockets' = [sockets EXCEPT ![k] = "closing"]
        /\ UNCHANGED <<socket, reconnectAttempts, timers, stopped, runVars, valueCache,
                       indicatorCache, callVars>>

\* The caller invokes disconnect() (lines 138-143): close() starts the
\* closing handshake of the current socket, whose close event comes later.
Disconnect ==
    /\ socket # 0
    /\ sockets' = [sockets EXCEPT ![socket] =
                      IF @ \in {"connecting", "open"} THEN "closing" ELSE @]
    /\ socket' = 0
    /\ stopped' = (sockets[socket] = "open")
    /\ UNCHANGED <<reconnectAttempts, timers, runVars, valueCache, indicatorCache, callVars>>

\* onclose of socket k (lines 111-115) with tryReconnect (lines 128-136).
OnClose ==
    \E k \in 1..Len(sockets) :
        /\ sockets[k] = "closing"
        /\ sockets' = [sockets EXCEPT ![k] = "closed"]
        /\ socket' = 0
        /\ IF reconnectAttempts < maxReconnectAttempts
           THEN reconnectAttempts' = reconnectAttempts + 1 /\ timers' = timers + 1
           ELSE UNCHANGED <<reconnectAttempts, timers>>
        /\ UNCHANGED <<stopped, runVars, valueCache, indicatorCache, callVars>>

\* A timer of tryReconnect runs (lines 132-134): connect(path) again.
Reconnect ==
    /\ timers > 0
    /\ timers' = timers - 1
    /\ NewSocket
    /\ UNCHANGED <<reconnectAttempts, stopped, runVars, valueCache, indicatorCache, callVars>>

NextSocket == Connect \/ OnOpen \/ Drop \/ Disconnect \/ OnClose \/ Reconnect

SpecSocket == Init /\ [][NextSocket]_vars

\* After disconnect() on a connected service only the caller opens a
\* socket, and no reconnect is scheduled.
C30_Step ==
    stopped =>
        /\ Len(sockets') > Len(sockets) => ~stopped'
        /\ timers' <= timers

(***************************************************************************)
(* C30.  WebSocketService: once disconnect() has been called on a          *)
(* connected service, no socket is opened until the caller invokes         *)
(* connect() again, and the onclose callback of the socket that            *)
(* disconnect() closed schedules no reconnect.                             *)
(* disconnect() leaves the socket's onclose handler in place; the handler  *)
(* calls tryReconnect, whose timer calls connect; this is violated.        *)
(***************************************************************************)
C30_NoReconnectAfterDisconnect == [][C30_Step]_vars

====
